---- MODULE Spec2Model ----
(***************************************************************************)
(* Process supervisor of the VoiceToTex Electron main process              *)
(* (electron/main.js): the worker handle, the readiness handshake, the     *)
(* restart policy, manual restart, shutdown and status emission.           *)
(*                                                                         *)
(* The main process is single threaded.  Every action below is one         *)
(* macrotask (an event callback or a timer callback) run to completion;    *)
(* promise continuations (`.then(...)`, `await`) are microtasks kept in    *)
(* `jobs`, and no macrotask runs while `jobs` is not empty.                *)
(*                                                                         *)
(* The renderer's WebSocketClient (src/js/sounds.js), the transport to the  *)
(* worker, is modelled next to it: its fields, the sockets it has created   *)
(* and their events.                                                        *)
(***************************************************************************)
EXTENDS Integers, Sequences, FiniteSets, TLC

(***************************************************************************)
(* Bounds of the model.                                                    *)
(***************************************************************************)
\* number of child processes spawned in one behaviour
MaxSpawns == 3
\* length of the unfinished line in a worker's line-assembly buffer
MaxBuf == 8
\* number of restart-backend commands in one behaviour
MaxManual == 1
\* number of killPythonBackend() promises unresolved at the same time
MaxKills == 1

\* number of sockets a WebSocketClient creates in one behaviour
MaxSockets == 3
\* the same, of a client on which connect() is called once
MaxSessionSockets == 7
\* number of connect() calls on a WebSocketClient in one behaviour
MaxConnects == 2
\* number of reconnect timers set without a socket opening in between
MaxReconnects == 7
\* number of sockets of a client that sends and receives frames
MaxTrafficSockets == 2
\* number of send() calls of one client that transmit a frame, made by the
\* user, by heartbeat ticks and by handlers
MaxSends == 2

(***************************************************************************)
(* Program constants.                                                      *)
(***************************************************************************)
MAX_RESTARTS == 3
RECONNECT_BASE_MS == 500
RECONNECT_MAX_MS == 10000

\* JavaScript null for a handle (process, timer), and undefined for a field
\* of the status object that was never set
null == 0
undefined == -1
\* an authToken field that was never set (a token is a sequence of characters)
noToken == <<"undefined">>

(***************************************************************************)
(* Text.  A string is a sequence of one-character strings.                 *)
(***************************************************************************)
Digits == {"0", "1", "2", "3", "4", "5", "6", "7", "8", "9"}
LineTerminators == {"\n", "\r"}
READY == <<"R", "E", "A", "D", "Y", ":">>

DigitVal(c) ==
  CASE c = "0" -> 0 [] c = "1" -> 1 [] c = "2" -> 2 [] c = "3" -> 3
    [] c = "4" -> 4 [] c = "5" -> 5 [] c = "6" -> 6 [] c = "7" -> 7
    [] c = "8" -> 8 [] c = "9" -> 9

\* parseInt(s, 10) of a non-empty string of digits
RECURSIVE parseInt(_)
parseInt(s) ==
  IF s = <<>> THEN 0
  ELSE 10 * parseInt(SubSeq(s, 1, Len(s) - 1)) + DigitVal(s[Len(s)])

\* stdoutBuffer.split('\n'): the pieces between the newlines, the last piece
\* being the unterminated rest
RECURSIVE split(_)
split(s) ==
  IF \A i \in 1..Len(s) : s[i] # "\n" THEN <<s>>
  ELSE LET i == CHOOSE k \in 1..Len(s) :
                  s[k] = "\n" /\ \A j \in 1..(k - 1) : s[j] # "\n"
       IN <<SubSeq(s, 1, i - 1)>> \o split(SubSeq(s, i + 1, Len(s)))

\* chunk.toString(): the UTF-8 decoding of the bytes of one chunk.  A byte is
\* an ASCII character or one of the two bytes C3 A9 of the character U+00E9;
\* a lead byte without its continuation byte in the same chunk, and a
\* continuation byte without its lead byte, decode to U+FFFD each.
RECURSIVE toString(_)
toString(chunk) ==
  IF chunk = <<>> THEN <<>>
  ELSE IF Head(chunk) = "C3" /\ Len(chunk) >= 2 /\ chunk[2] = "A9"
    THEN <<"U+00E9">> \o toString(SubSeq(chunk, 3, Len(chunk)))
  ELSE IF Head(chunk) \in {"C3", "A9"}
    THEN <<"U+FFFD">> \o toString(Tail(chunk))
  ELSE <<Head(chunk)>> \o toString(Tail(chunk))

\* number of leading digits of s
RECURSIVE digitRun(_)
digitRun(s) ==
  IF s # <<>> /\ Head(s) \in Digits THEN 1 + digitRun(Tail(s)) ELSE 0

\* line.match(/^READY:(\d+)(?::(.+))?$/): the record of the two groups, or
\* matched = FALSE.  `.` matches any character but a line terminator, `$`
\* only the end of the line (no m flag); an absent group 2 reads as ''
\* through `match[2] || ''`.
match(line) ==
  LET n    == Len(READY)
      rest == SubSeq(line, n + 1, Len(line))
      d    == digitRun(rest)
      tail == SubSeq(rest, d + 1, Len(rest))
      no   == [matched |-> FALSE, port |-> undefined, authToken |-> <<>>]
  IN IF Len(line) < n + 1 \/ SubSeq(line, 1, n) # READY \/ d = 0 THEN no
     ELSE IF tail = <<>>
       THEN [matched |-> TRUE, port |-> parseInt(SubSeq(rest, 1, d)),
             authToken |-> <<>>]
     ELSE IF /\ Head(tail) = ":"
             /\ Len(tail) >= 2
             /\ \A i \in 2..Len(tail) : tail[i] \notin LineTerminators
       THEN [matched |-> TRUE, port |-> parseInt(SubSeq(rest, 1, d)),
             authToken |-> Tail(tail)]
     ELSE no


(***************************************************************************)
(* State.                                                                  *)
(*                                                                         *)
(* Of the children the model keeps what the supervisor can observe: a       *)
(* child runs until its exit event, unless SIGKILL or the SIGTERM of        *)
(* killStaleBackend ended it before ("killed", exit event still to come).   *)
(* The data of a child's stdout is delivered before its exit event, and     *)
(* proc.kill() does not throw (it returns false for a child that is gone).  *)
(***************************************************************************)
VARIABLES
  pythonProcess,        \* id of the child in the handle variable, or null
  backendPort,          \* port of the last READY line, or null
  restartCount,
  isQuitting,
  isSpawning,
  startupTimer,         \* null, or the pending timer (named by the child
                        \* whose spawn armed it)
  latestBackendStatus,  \* the merged status object
  mainWindow,           \* whether the main window exists (is neither null
                        \* nor destroyed)
  workers,              \* the children spawned so far, by id: OS state, the
                        \* stdoutBuffer of the child's data callback
  restartTimers,        \* delays of the pending setTimeout(spawnPythonBackend)
  kills,                \* unresolved killPythonBackend() promises
  jobs,                 \* microtask queue: continuations of resolved promises
  phase,                \* "init" before app.whenReady, "up", "quit" after exit
  restartLog,           \* history: the restarts scheduled since the last
                        \* Ready or manual restart, as <<attempt, delay>>
  world,                \* the installation (fixed): the outcomes that
                        \* ensurePackagedPythonEnv, the existence test of
                        \* server.py and spawn() can have on it
  manualCount,          \* history: restart-backend commands handled
  timeoutSeen,          \* history: a startup timeout was reported and no
                        \* manual restart was handled since
  provisionSeen,        \* history: ensurePackagedPythonEnv reported a failure
                        \* and no manual restart was handled since
  errorSeen,            \* history: a spawn error was reported and no manual
                        \* restart was handled since
  last,                 \* history: the step that led to this state
  client,               \* the fields of the WebSocketClient
  sockets,              \* the WebSocket objects the client has created, by
                        \* id: readyState, whether it was ever open, its frames
  reconnectPending,     \* null, or the delay of the pending reconnect timer
  reconnectLog,         \* history: the delays of the reconnect timers set
                        \* since the last open event (or since construction)
  heartbeats,           \* the handles of the armed setInterval timers
  clientLast            \* history: the client's step that led to this state

supervisorVars ==
  <<pythonProcess, backendPort, restartCount, isQuitting, isSpawning,
    startupTimer, latestBackendStatus, mainWindow, workers, restartTimers, kills,
    jobs, phase, world, manualCount, restartLog, timeoutSeen,
    errorSeen, provisionSeen, last>>

clientVars ==
  <<client, sockets, reconnectPending, reconnectLog, heartbeats, clientLast>>

vars == <<supervisorVars, clientVars>>

\* the program state as one record, so that the handlers compose as functions
Cur ==
  [pythonProcess |-> pythonProcess, backendPort |-> backendPort,
   restartCount |-> restartCount, isQuitting |-> isQuitting,
   isSpawning |-> isSpawning, startupTimer |-> startupTimer,
   latestBackendStatus |-> latestBackendStatus,
   mainWindow |-> mainWindow, workers |-> workers,
   restartTimers |-> restartTimers, kills |-> kills, jobs |-> jobs,
   phase |-> phase, world |-> world,
   manualCount |-> manualCount, restartLog |-> restartLog,
   timeoutSeen |-> timeoutSeen, errorSeen |-> errorSeen,
   provisionSeen |-> provisionSeen,
   emitted |-> <<>>, spawned |-> 0, pythonPath |-> "", chunk |-> <<>>,
   produced |-> <<>>, delivered |-> <<>>]

\* the next state is s; op, w and code name the step
Become(s, op, w, code) ==
  /\ pythonProcess' = s.pythonProcess
  /\ backendPort' = s.backendPort
  /\ restartCount' = s.restartCount
  /\ isQuitting' = s.isQuitting
  /\ isSpawning' = s.isSpawning
  /\ startupTimer' = s.startupTimer
  /\ latestBackendStatus' = s.latestBackendStatus
  /\ mainWindow' = s.mainWindow
  /\ workers' = s.workers
  /\ restartTimers' = s.restartTimers
  /\ kills' = s.kills
  /\ jobs' = s.jobs
  /\ phase' = s.phase
  /\ world' = s.world
  /\ manualCount' = s.manualCount
  /\ restartLog' = s.restartLog
  /\ timeoutSeen' = s.timeoutSeen
  /\ errorSeen' = s.errorSeen
  /\ provisionSeen' = s.provisionSeen
  /\ last' = [op |-> op, w |-> w, code |-> code,
              rc |-> restartCount,           \* restartCount before the step
              guard |-> isSpawning,          \* isSpawning before the step
              timers |-> Len(restartTimers), \* pending restart timers before
              emitted |-> s.emitted,         \* statuses sent in the step
              spawned |-> s.spawned,         \* child spawned in the step
              pythonPath |-> s.pythonPath,   \* the executable it was given
              chunk |-> s.chunk,             \* bytes read in the step
              prov |-> provisionSeen,        \* provisionSeen before the step
              \* the arguments of the sendBackendStatus calls of the step,
              \* and the payloads that reached the window
              produced |-> s.produced,
              delivered |-> s.delivered]
  /\ UNCHANGED clientVars

\* a child just spawned; st is "running", "failed" (the spawn failed and the
\* error event is to come), "killed" (ended by a signal, exit event to come)
\* or "gone" (exit or error event delivered)
NewWorker(ok) ==
  [st |-> IF ok THEN "running" ELSE "failed", stdoutBuffer |-> <<>>,
   ready |-> FALSE, timedOut |-> FALSE, written |-> 0]

Gone == [st |-> "gone", stdoutBuffer |-> <<>>, ready |-> FALSE,
         timedOut |-> FALSE, written |-> 0]

StatusFields == {"status", "message", "port", "authToken", "attempt"}

\* sendToRenderer('backend-status', data): `emitted` lists what the calls
\* of the step were given, `delivered` what they sent to the window
sendToRenderer(s, data) ==
  IF s.mainWindow
  THEN [s EXCEPT !.emitted = Append(@, data), !.delivered = Append(@, data)]
  ELSE [s EXCEPT !.emitted = Append(@, data)]

\* a field that an object does not have reads as undefined
Get(data, f) ==
  IF f \in DOMAIN data THEN data[f]
  ELSE IF f = "authToken" THEN noToken
  ELSE IF f = "message" THEN "undefined"
  ELSE undefined

\* sendBackendStatus(data): latestBackendStatus = {...latestBackendStatus,
\* ...data}, and the merged object is what is sent
sendBackendStatus_unmerged(s, data) ==
  LET merged == [f \in StatusFields |->
                   IF f \in DOMAIN data THEN data[f]
                   ELSE s.latestBackendStatus[f]]
  IN sendToRenderer([s EXCEPT !.latestBackendStatus = merged,
                              !.produced = Append(@, data)],
                    [f \in StatusFields |-> Get(data, f)])

sendBackendStatus(s, data) ==
  LET merged == [f \in StatusFields |->
                   IF f \in DOMAIN data THEN data[f]
                   ELSE s.latestBackendStatus[f]]
  IN sendToRenderer([s EXCEPT !.latestBackendStatus = merged,
                              !.produced = Append(@, data)], merged)

\* ipcMain.handle('get-backend-status')
getBackendStatus(s) == s.latestBackendStatus

clearStartupTimer(s) == [s EXCEPT !.startupTimer = null]

(***************************************************************************)
(* The environment of one spawnPythonBackend() call: whether server.py     *)
(* exists, how ensurePackagedPythonEnv ends, which running children die of  *)
(* the SIGTERM of killStaleBackend within its one second wait, and whether  *)
(* spawn() launches the executable.                                         *)
(***************************************************************************)
Provisions == {"none", "nopython", "venvfail", "pipfail", "ok"}

\* what findPythonPath() sees: the value of VOICETOTEX_PYTHON (<<>> when the
\* variable is not set, the characters of its value otherwise, none for the
\* empty string), whether the interpreter of the bundled and of the
\* user-scoped runtime exist, and whether python3 and python are commands
Files ==
  [override : {<<>>, <<"">>, <<"/opt/py">>, <<"python3.11">>},
   bundled : BOOLEAN, user : BOOLEAN, python3 : BOOLEAN, python : BOOLEAN]

\* a development machine: python3 is installed
DevFiles == [override |-> <<>>, bundled |-> FALSE, user |-> FALSE,
             python3 |-> TRUE, python |-> FALSE]

packagedVenvPython == "backend/.venv/bin/python"
userVenvPython == "userData/pyenv/bin/python"

\* findPythonPath(); the empty string is falsy
findPythonPath_systemFirst(f) ==
  IF f.override # <<>> /\ f.override[1] # "" THEN f.override[1]
  ELSE IF f.bundled THEN packagedVenvPython
  ELSE IF f.python3 THEN "python3"
  ELSE IF f.python THEN "python"
  ELSE IF f.user THEN userVenvPython
  ELSE packagedVenvPython

findPythonPath(f) ==
  IF f.override # <<>> /\ f.override[1] # "" THEN f.override[1]
  ELSE IF f.bundled THEN packagedVenvPython
  ELSE IF f.user THEN userVenvPython
  ELSE IF f.python3 THEN "python3"
  ELSE IF f.python THEN "python"
  ELSE packagedVenvPython

Running(s) == {w \in 1..Len(s.workers) : s.workers[w].st = "running"}

\* (the inputs a call does not read are fixed, so that each outcome is
\* enumerated once)
NoEnv == [scriptExists |-> FALSE, provision |-> "none", stale |-> {},
          ok |-> FALSE, files |-> DevFiles]

SpawnEnvs(s) ==
  IF s.isSpawning THEN {NoEnv}
  ELSE {e \in {NoEnv} : FALSE \in s.world.scriptExists}
       \cup [scriptExists : s.world.scriptExists \ {FALSE},
             provision : s.world.provisions,
             stale : SUBSET Running(s), ok : s.world.spawnOk,
             files : s.world.files]

\* ensurePackagedPythonEnv(backendDir); it returns nothing, so the caller
\* goes on whatever the outcome
ensurePackagedPythonEnv(s, provision) ==
  LET preparing == sendBackendStatus(s,
        [status |-> "starting", message |-> "Preparing Python environment"])
      failed(t) == [t EXCEPT !.provisionSeen = TRUE]
  IN CASE provision = "none" -> s
       [] provision = "nopython" -> failed(sendBackendStatus(s,
            [status |-> "error", message |-> "Python is not installed"]))
       [] provision = "venvfail" -> failed(sendBackendStatus(preparing,
            [status |-> "error",
             message |-> "Failed to create Python environment"]))
       [] provision = "pipfail" -> failed(sendBackendStatus(preparing,
            [status |-> "error",
             message |-> "Failed to install Python dependencies"]))
       [] provision = "ok" -> preparing

\* killStaleBackend(): SIGTERM to every process running server.py, then a
\* wait of one second; the children in `stale` have ended by then
killStaleBackend(s, stale) ==
  [s EXCEPT !.workers = [w \in 1..Len(s.workers) |->
      IF w \in stale THEN [s.workers[w] EXCEPT !.st = "killed"]
      ELSE s.workers[w]]]

spawnPythonBackend(s, e) ==
  IF s.isSpawning THEN s
  ELSE IF ~e.scriptExists
    THEN [sendBackendStatus(s, [status |-> "error",
                                message |-> "Backend server missing"])
            EXCEPT !.isSpawning = FALSE]
  ELSE
    LET s1 == ensurePackagedPythonEnv([s EXCEPT !.isSpawning = TRUE],
                                      e.provision)
        pythonPath == findPythonPath(e.files)
        s2 == clearStartupTimer(killStaleBackend(s1, e.stale))
        s3 == sendBackendStatus(s2, [status |-> "starting",
                                     message |-> "Starting backend"])
        id == Len(s3.workers) + 1
    IN [s3 EXCEPT !.workers = Append(@, NewWorker(e.ok)),
                  !.pythonProcess = id,
                  !.startupTimer = id,
                  !.spawned = id,
                  !.pythonPath = pythonPath]

\* the callback of startupTimer
startupTimeout(s) ==
  LET w  == s.startupTimer
      s1 == [s EXCEPT !.startupTimer = null]
  IN IF s1.isSpawning /\ s1.pythonProcess # null
     THEN [sendBackendStatus(s1, [status |-> "crashed",
               message |-> "Backend failed to start within 120s"])
             EXCEPT !.workers[w].timedOut = TRUE,
                    !.timeoutSeen = TRUE]
     ELSE s1

\* the body of the loop over the complete lines of pythonProcess.stdout's
\* data callback of child w
onLine_noReset(s, w, line) ==
  LET m == match(line)
  IN IF m.matched
     THEN LET s1 == [clearStartupTimer(s) EXCEPT
                       !.isSpawning = FALSE,
                       !.backendPort = m.port,
                       !.restartLog = <<>>,
                       !.workers[w].ready = TRUE]
          IN sendBackendStatus(s1,
               [port |-> m.port, authToken |-> m.authToken,
                status |-> "ready", message |-> "Backend ready"])
     ELSE s

onLine(s, w, line) ==
  LET m == match(line)
  IN IF m.matched
     THEN LET s1 == [clearStartupTimer(s) EXCEPT
                       !.isSpawning = FALSE,
                       !.backendPort = m.port,
                       !.restartCount = 0,
                       !.restartLog = <<>>,
                       !.workers[w].ready = TRUE]
          IN sendBackendStatus(s1,
               [port |-> m.port, authToken |-> m.authToken,
                status |-> "ready", message |-> "Backend ready"])
     ELSE s

RECURSIVE onLines(_, _, _)
onLines(s, w, lines) ==
  IF lines = <<>> THEN s
  ELSE onLines(onLine(s, w, Head(lines)), w, Tail(lines))

\* pythonProcess.stdout.on('data') of child w
onStdoutData(s, w, chunk) ==
  LET pieces == split(s.workers[w].stdoutBuffer \o toString(chunk))
      n      == Len(pieces)
      s1     == [s EXCEPT !.workers[w].stdoutBuffer = pieces[n],
                          !.chunk = chunk]
  IN onLines(s1, w, SubSeq(pieces, 1, n - 1))

\* the listeners that killPythonBackend() put on child w: each resolves its
\* promise, whose continuation becomes a microtask
RECURSIVE resolveKills(_, _)
resolveKills(s, w) ==
  IF \A i \in 1..Len(s.kills) : s.kills[i].proc # w THEN s
  ELSE LET i == CHOOSE k \in 1..Len(s.kills) :
                  /\ s.kills[k].proc = w
                  /\ \A j \in 1..(k - 1) : s.kills[j].proc # w
       IN resolveKills(
            [s EXCEPT !.jobs = Append(@, s.kills[i].then),
                      !.kills = SubSeq(@, 1, i - 1)
                                  \o SubSeq(@, i + 1, Len(@))], w)

\* pythonProcess.on('error') of child w
onError(s, w) ==
  LET s1 == [clearStartupTimer(s) EXCEPT !.isSpawning = FALSE,
                                          !.pythonProcess = null,
                                          !.errorSeen = TRUE,
                                          !.workers[w] = Gone]
  IN sendBackendStatus(s1, [status |-> "error", message |-> "spawn failed"])

\* the first statements of pythonProcess.on('exit') of child w
exitCleanup_reset(s, w) ==
  [clearStartupTimer(s) EXCEPT !.isSpawning = FALSE,
                               !.pythonProcess = null,
                               !.backendPort = null,
                               !.restartCount = 0,
                               !.workers[w] = Gone]

exitCleanup(s, w) ==
  [clearStartupTimer(s) EXCEPT !.isSpawning = FALSE,
                               !.pythonProcess = null,
                               !.backendPort = null,
                               !.workers[w] = Gone]

\* the test of the exit handler's restart branch
mayRestart_offByOne(s, code) ==
  ~s.isQuitting /\ code # "0" /\ s.restartCount <= MAX_RESTARTS

mayRestart_anyCode(s, code) ==
  ~s.isQuitting /\ s.restartCount < MAX_RESTARTS

mayRestart_whileQuitting(s, code) ==
  code # "0" /\ s.restartCount < MAX_RESTARTS

mayRestart(s, code) ==
  ~s.isQuitting /\ code # "0" /\ s.restartCount < MAX_RESTARTS

\* const delay = 1000 * restartCount
restartDelay_exponential(rc) == 1000 * 2 ^ (rc - 1)

restartDelay(rc) == 1000 * rc

\* pythonProcess.on('exit') of child w, then the exit listeners of
\* killPythonBackend
onExit(s, w, code) ==
  LET s1 == exitCleanup(s, w)
      rc == s1.restartCount + 1
      delay == restartDelay(rc)
      s2 == IF mayRestart(s1, code)
            THEN [sendBackendStatus([s1 EXCEPT !.restartCount = rc],
                     [status |-> "restarting", attempt |-> rc])
                    EXCEPT !.restartTimers = Append(@, delay),
                           !.restartLog = Append(@, <<rc, delay>>)]
            ELSE IF ~s1.isQuitting /\ code # "0"
            THEN sendBackendStatus(s1, [status |-> "crashed",
                     message |-> "Max restarts exceeded"])
            ELSE s1
  IN resolveKills(s2, w)

\* killPythonBackend().then(k): the promise and its continuation k
killPythonBackend(s, k) ==
  IF s.pythonProcess = null THEN [s EXCEPT !.jobs = Append(@, k)]
  ELSE [s EXCEPT !.kills = Append(@, [proc |-> s.pythonProcess, then |-> k])]

\* the 5000ms timer of the i-th unresolved killPythonBackend(): SIGKILL,
\* which ends a child that still runs, and resolve
killTimeout_noResolve(s, i) ==
  [s EXCEPT !.workers[s.kills[i].proc].st =
                    IF @ = "running" THEN "killed" ELSE @]

killTimeout(s, i) ==
  LET k == s.kills[i]
  IN [s EXCEPT !.workers[k.proc].st =
                    IF @ = "running" THEN "killed" ELSE @,
               !.jobs = Append(@, k.then),
               !.kills = SubSeq(@, 1, i - 1) \o SubSeq(@, i + 1, Len(@))]

\* ipcMain.on('restart-backend') up to the branch on pythonProcess
restartBackend(s) ==
  [clearStartupTimer([s EXCEPT !.restartCount = 0, !.restartLog = <<>>,
                               !.timeoutSeen = FALSE,
                               !.errorSeen = FALSE,
                               !.provisionSeen = FALSE,
                               !.manualCount = @ + 1])
     EXCEPT !.isSpawning = FALSE]

(***************************************************************************)
(* The WebSocketClient.  The handlers that _openSocket() puts on a socket  *)
(* read and write the fields of the client (this._ws is the socket created *)
(* last, whichever socket the event is of).                                 *)
(***************************************************************************)
\* the state of the client and its sockets as one record; `threw` tells
\* whether the handler of the step ended by an exception, `invoked` lists
\* the callbacks that _emit() called in the step
ClientCur ==
  [client |-> client, sockets |-> sockets,
   reconnectPending |-> reconnectPending, reconnectLog |-> reconnectLog,
   heartbeats |-> heartbeats, threw |-> FALSE, invoked |-> <<>>,
   arg |-> ""]

\* the next state of the client is c; op and sock name the step
BecomeClient(c, op, sock) ==
  /\ client' = c.client
  /\ sockets' = c.sockets
  /\ reconnectPending' = c.reconnectPending
  /\ reconnectLog' = c.reconnectLog
  /\ heartbeats' = c.heartbeats
  /\ clientLast' = [op |-> op, sock |-> sock, threw |-> c.threw,
                    invoked |-> c.invoked,
                    \* the action sent or the data received
                    arg |-> c.arg,
                    \* _reconnectDelay before the step
                    delay |-> client._reconnectDelay,
                    \* connect() calls so far
                    connects |-> clientLast.connects
                                   + (IF op = "connect" THEN 1 ELSE 0)]
  /\ UNCHANGED supervisorVars

\* the message types handlers are registered for
Types == {"open", "close", "status"}

\* new WebSocketClient(url, authToken); _listeners maps a type to its
\* callbacks in the order of their registration (no entry: no callback)
WebSocketClient(url, authToken) ==
  [_url |-> url, _authToken |-> authToken, _ws |-> null,
   _listeners |-> [t \in Types |-> <<>>],
   _reconnectDelay |-> RECONNECT_BASE_MS, _reconnectTimer |-> null,
   _heartbeatTimer |-> null, _intentionalClose |-> FALSE]

\* on(type, callback): a Set holds a callback once, at its first place
on(c, type, callback) ==
  IF \E k \in 1..Len(c.client._listeners[type]) :
       c.client._listeners[type][k] = callback
  THEN c
  ELSE [c EXCEPT !.client._listeners[type] = Append(@, callback)]

\* new WebSocket(url) throws a SyntaxError for a URL that does not parse; of
\* `ws://127.0.0.1:${port}` that is a port above 65535
ValidUrl(url) == url.port <= 65535

Min(a, b) == IF a <= b THEN a ELSE b

\* clearTimeout of the handle, which is the handle of the timer set last
stopReconnect(c) ==
  IF c.client._reconnectTimer # null
  THEN [c EXCEPT !.client._reconnectTimer = null, !.reconnectPending = null]
  ELSE c

scheduleReconnect(c) ==
  LET c1 == stopReconnect(c)
  IN [c1 EXCEPT !.client._reconnectTimer = 1,       \* the new handle
                !.reconnectPending = c1.client._reconnectDelay,
                !.reconnectLog = Append(@, c1.client._reconnectDelay)]

\* clearInterval of the handle in _heartbeatTimer
stopHeartbeat(c) ==
  IF c.client._heartbeatTimer # null
  THEN [c EXCEPT !.heartbeats = @ \ {c.client._heartbeatTimer},
                 !.client._heartbeatTimer = null]
  ELSE c

\* setInterval returns a handle that no armed timer has
setInterval(c) ==
  CHOOSE h \in 1..(Cardinality(c.heartbeats) + 1) : h \notin c.heartbeats

startHeartbeat_noStop(c) ==
  LET h == setInterval(c)
  IN [c EXCEPT !.heartbeats = @ \cup {h}, !.client._heartbeatTimer = h]

startHeartbeat(c) ==
  LET c1 == stopHeartbeat(c)
      h  == setInterval(c1)
  IN [c1 EXCEPT !.heartbeats = @ \cup {h}, !.client._heartbeatTimer = h]

openSocket(c) ==
  IF ~ValidUrl(c.client._url) THEN scheduleReconnect(c)
  ELSE [c EXCEPT !.sockets = Append(@, [readyState |-> "CONNECTING",
                                        opened |-> FALSE,
                                        sent |-> <<>>]),
                 !.client._ws = Len(c.sockets) + 1]

\* this._ws.send(frame): a TypeError without a socket, an InvalidStateError
\* on a socket that is connecting; a socket closing or closed drops the frame
wsSend(c, frame) ==
  LET i == c.client._ws
  IN IF i = null THEN [c EXCEPT !.threw = TRUE]
     ELSE IF c.sockets[i].readyState = "CONNECTING"
       THEN [c EXCEPT !.threw = TRUE]
     ELSE IF c.sockets[i].readyState = "OPEN"
       THEN [c EXCEPT !.sockets[i].sent = Append(@, frame)]
     ELSE c

\* JSON.stringify of the frames the client writes
AuthFrame(token) == [type |-> "auth", token |-> token]
PingFrame == [type |-> "ping"]
CommandFrame(action) == [type |-> "command", action |-> action]

\* send(action) with no payload
send_unguarded(c, action) ==
  IF action = "ping" THEN wsSend(c, PingFrame)
  ELSE wsSend(c, CommandFrame(action))

send(c, action) ==
  IF c.client._ws = null THEN c
  ELSE IF c.sockets[c.client._ws].readyState # "OPEN" THEN c
  ELSE IF action = "ping" THEN wsSend(c, PingFrame)
  ELSE wsSend(c, CommandFrame(action))

\* get isConnected
isConnected(c) ==
  c.client._ws # null /\ c.sockets[c.client._ws].readyState = "OPEN"

\* the callbacks given to on(): one that only shows what it gets, one that
\* throws, and the `open` handler of connectWebSocket, which asks the
\* backend for its configuration, history and devices
Callbacks == {"show", "faulty", "refresh"}

\* cb(msg)
call(c, cb) ==
  IF cb = "refresh"
  THEN send(send(send(c, "get_config"), "get_history"), "get_devices")
  ELSE IF cb = "faulty" THEN [c EXCEPT !.threw = TRUE]
  ELSE c

\* the loop of _emit() from the k-th callback of the set on
RECURSIVE emitFrom_noCatch(_, _, _)
emitFrom_noCatch(c, set, k) ==
  IF k > Len(set) THEN c
  ELSE LET c1 == call([c EXCEPT !.invoked = Append(@, set[k])], set[k])
       IN IF c1.threw THEN c1 ELSE emitFrom_noCatch(c1, set, k + 1)

RECURSIVE emitFrom(_, _, _)
emitFrom(c, set, k) ==
  IF k > Len(set) THEN c
  ELSE LET c1 == call([c EXCEPT !.invoked = Append(@, set[k])], set[k])
       IN emitFrom([c1 EXCEPT !.threw = FALSE], set, k + 1)

\* _emit(type, msg); a type that has no entry in the map has no callback
emit(c, type) ==
  IF type \notin Types THEN c
  ELSE emitFrom(c, c.client._listeners[type], 1)

\* the onopen handler
onopen_noReset(c) ==
  LET c1 == [c EXCEPT !.reconnectLog = <<>>]
      c2 == IF c1.client._authToken # <<>>
            THEN wsSend(c1, AuthFrame(c1.client._authToken)) ELSE c1
  IN IF c2.threw THEN c2 ELSE emit(startHeartbeat(c2), "open")

onopen_authLast(c) ==
  LET c1 == [c EXCEPT !.client._reconnectDelay = RECONNECT_BASE_MS,
                      !.reconnectLog = <<>>]
      c2 == emit(startHeartbeat(c1), "open")
  IN IF c2.client._authToken # <<>>
     THEN wsSend(c2, AuthFrame(c2.client._authToken)) ELSE c2

onopen(c) ==
  LET c1 == [c EXCEPT !.client._reconnectDelay = RECONNECT_BASE_MS,
                      !.reconnectLog = <<>>]
      c2 == IF c1.client._authToken # <<>>
            THEN wsSend(c1, AuthFrame(c1.client._authToken)) ELSE c1
  IN IF c2.threw THEN c2 ELSE emit(startHeartbeat(c2), "open")

\* the messages a socket receives: text that is no JSON, JSON that is no
\* object, an object without a type, and typed messages
Messages ==
  {"oops", "null", "{}", "{\"type\":\"status\"}", "{\"type\":\"pong\"}",
   "{\"type\":\"close\"}"}

\* JSON.parse(data): `thrown` for a SyntaxError, else the value, of which
\* the model keeps whether it is null and what its type property is
JSONparse(data) ==
  CASE data = "null" -> [thrown |-> FALSE, isNull |-> TRUE, type |-> ""]
    [] data = "{}" -> [thrown |-> FALSE, isNull |-> FALSE, type |-> ""]
    [] data = "{\"type\":\"status\"}" ->
         [thrown |-> FALSE, isNull |-> FALSE, type |-> "status"]
    [] data = "{\"type\":\"pong\"}" ->
         [thrown |-> FALSE, isNull |-> FALSE, type |-> "pong"]
    [] data = "{\"type\":\"close\"}" ->
         [thrown |-> FALSE, isNull |-> FALSE, type |-> "close"]
    [] OTHER -> [thrown |-> TRUE, isNull |-> FALSE, type |-> ""]

\* the onmessage handler: the try block ends at a SyntaxError of JSON.parse
\* and at the TypeError of reading the type of null; undefined and the
\* empty string are falsy
onmessage_noTry(c, data) ==
  LET msg == JSONparse(data)
  IN IF msg.thrown \/ msg.isNull THEN [c EXCEPT !.threw = TRUE]
     ELSE IF msg.type # "" THEN emit(c, msg.type)
     ELSE c

onmessage(c, data) ==
  LET msg == JSONparse(data)
  IN IF msg.thrown \/ msg.isNull THEN c
     ELSE IF msg.type # "" THEN emit(c, msg.type)
     ELSE c

\* the onclose handler
onclose_always(c) ==
  scheduleReconnect(emit(stopHeartbeat(c), "close"))

onclose_never(c) == emit(stopHeartbeat(c), "close")

onclose(c) ==
  LET c1 == emit(stopHeartbeat(c), "close")
  IN IF ~c1.client._intentionalClose THEN scheduleReconnect(c1) ELSE c1

\* the callback of the heartbeat interval
heartbeat(c) == send(c, "ping")

connect(c) == openSocket([c EXCEPT !.client._intentionalClose = FALSE])

disconnect(c) ==
  LET c1 == stopHeartbeat(stopReconnect(
              [c EXCEPT !.client._intentionalClose = TRUE]))
      i  == c1.client._ws
  IN IF i # null
     THEN [c1 EXCEPT !.sockets[i].readyState =
                         IF @ = "CLOSED" THEN @ ELSE "CLOSING",
                     !.client._ws = null]
     ELSE c1

\* Math.min(this._reconnectDelay * 2, RECONNECT_MAX_MS)
nextDelay_linear(d) == Min(d + RECONNECT_BASE_MS, RECONNECT_MAX_MS)

nextDelay_uncapped(d) == d * 2

nextDelay(d) == Min(d * 2, RECONNECT_MAX_MS)

\* the callback of the reconnect timer
reconnectTimeout(c) ==
  openSocket([c EXCEPT !.reconnectPending = null,
                       !.client._reconnectDelay = nextDelay(@)])

(***************************************************************************)
(* The renderer's handler of backend-status events: what it does with the  *)
(* crash overlay, what it shows as a toast, and whether it calls            *)
(* connectWebSocket(data.port, data.authToken).                             *)
(***************************************************************************)
onBackendStatus(data) ==
  IF data.port # undefined /\ data.port # 0
  THEN [crashOverlay |-> "hidden", toast |-> "", connectWebSocket |-> TRUE]
  ELSE IF data.status = "crashed"
  THEN [crashOverlay |-> "visible", toast |-> "", connectWebSocket |-> FALSE]
  ELSE IF data.status = "error"
  THEN [crashOverlay |-> "same", toast |-> "error",
        connectWebSocket |-> FALSE]
  ELSE IF data.status = "restarting"
  THEN [crashOverlay |-> "same", toast |-> "info",
        connectWebSocket |-> FALSE]
  ELSE [crashOverlay |-> "same", toast |-> "", connectWebSocket |-> FALSE]

(***************************************************************************)
(* Inputs.                                                                 *)
(***************************************************************************)
\* exit codes: 0, nonzero, and null for a child ended by a signal
ExitCodes == {"0", "1", "null"}

\* chunks the worker writes to stdout: a whole readiness line, a log line
Chunks == { READY \o <<"7", ":", "k", "\n">>, <<"x", "\n">> }

\* chunks of a worker that never gets ready: a log line and unfinished ones
LogChunks == { <<"x", "\n">>, <<"x">>, READY }

\* a failed spawn() emits `error` on the next tick, ahead of every other
\* callback
Failed == {w \in 1..Len(workers) : workers[w].st = "failed"}

\* the event loop takes the next macrotask
Idle == phase = "up" /\ jobs = <<>> /\ Failed = {}

(***************************************************************************)
(* Actions: one per callback.                                              *)
(***************************************************************************)
\* the state at module load
Fresh(wld) ==
  [pythonProcess |-> null, backendPort |-> null, restartCount |-> 0,
   isQuitting |-> FALSE, isSpawning |-> FALSE, startupTimer |-> null,
   latestBackendStatus |->
     [status |-> "loading", message |-> "Initializing",
      port |-> undefined, authToken |-> noToken, attempt |-> undefined],
   mainWindow |-> FALSE,
   workers |-> <<>>, restartTimers |-> <<>>, kills |-> <<>>, jobs |-> <<>>,
   phase |-> "init", world |-> wld, manualCount |-> 0, restartLog |-> <<>>,
   timeoutSeen |-> FALSE, errorSeen |-> FALSE, provisionSeen |-> FALSE,
   emitted |-> <<>>,
   spawned |-> 0, pythonPath |-> "", chunk |-> <<>>, produced |-> <<>>,
   delivered |-> <<>>]

\* the app has ended: nothing of the main process is left
Quit == [Fresh(world) EXCEPT !.phase = "quit"]

\* a development checkout (app.isPackaged is false, so that
\* ensurePackagedPythonEnv returns at once) on which server.py can be
\* missing and spawn() can fail
World == [provisions |-> {"none"}, scriptExists |-> BOOLEAN,
          spawnOk |-> BOOLEAN, files |-> {DevFiles}]

\* the URLs and tokens the renderer makes its client with (app.js:751)
Urls == {[port |-> 7], [port |-> 99999]}
Tokens == {<<>>, <<"k">>}

InitClientAs(url, authToken) ==
  /\ client = WebSocketClient(url, authToken)
  /\ sockets = <<>>
  /\ reconnectPending = null
  /\ reconnectLog = <<>>
  /\ heartbeats = {}
  /\ clientLast = [op |-> "new", sock |-> 0, threw |-> FALSE,
                   invoked |-> <<>>, arg |-> "",
                   delay |-> RECONNECT_BASE_MS, connects |-> 0]

InitIn(wld) ==
  LET f == Fresh(wld)
  IN /\ InitClientAs([port |-> 7], <<>>)
     /\ pythonProcess = f.pythonProcess
     /\ backendPort = f.backendPort
     /\ restartCount = f.restartCount
     /\ isQuitting = f.isQuitting
     /\ isSpawning = f.isSpawning
     /\ startupTimer = f.startupTimer
     /\ latestBackendStatus = f.latestBackendStatus
     /\ mainWindow = f.mainWindow
     /\ workers = f.workers
     /\ restartTimers = f.restartTimers
     /\ kills = f.kills
     /\ jobs = f.jobs
     /\ phase = f.phase
     /\ world = f.world
     /\ manualCount = f.manualCount
     /\ restartLog = f.restartLog
     /\ timeoutSeen = f.timeoutSeen
     /\ errorSeen = f.errorSeen
     /\ provisionSeen = f.provisionSeen
     /\ last = [op |-> "init", w |-> 0, code |-> "", rc |-> 0,
                guard |-> FALSE, timers |-> 0, emitted |-> <<>>,
                spawned |-> 0, pythonPath |-> "", chunk |-> <<>>,
                prov |-> FALSE,
                produced |-> <<>>, delivered |-> <<>>]

Init == InitIn(World)

\* mainWindow = new BrowserWindow(windowOptions)
createMainWindow(s) == [s EXCEPT !.mainWindow = TRUE]

\* app.whenReady().then(startup)
Startup ==
  /\ phase = "init"
  /\ \E e \in SpawnEnvs(createMainWindow(Cur)) :
       Become([spawnPythonBackend(createMainWindow(Cur), e)
                 EXCEPT !.phase = "up"], "startup", 0, "")

StdoutFrom(chunks) ==
  /\ Idle
  /\ \E w \in 1..Len(workers), chunk \in chunks :
       /\ workers[w].st \in {"running", "killed"}
       /\ Len(onStdoutData(Cur, w, chunk).workers[w].stdoutBuffer) <= MaxBuf
       /\ Become(onStdoutData(Cur, w, chunk), "stdout", w, "")

StdoutData == StdoutFrom(Chunks)

ErrorEvent ==
  /\ phase = "up"
  /\ \E w \in Failed : Become(onError(Cur, w), "error", w, "")

ExitWith(codes) ==
  /\ Idle
  /\ \E w \in 1..Len(workers), code \in codes :
       /\ workers[w].st \in {"running", "killed"}
       /\ Become(onExit(Cur, w, code), "exit", w, code)

ExitEvent == ExitWith(ExitCodes)

StartupTimerFire ==
  /\ Idle
  /\ startupTimer # null
  /\ Become(startupTimeout(Cur), "startupTimer", startupTimer, "")

\* the callback of a timer set by the exit handler
RestartTimerFire ==
  /\ Idle
  /\ \E i \in 1..Len(restartTimers), e \in SpawnEnvs(Cur) :
       LET s == [Cur EXCEPT !.restartTimers =
                   SubSeq(@, 1, i - 1) \o SubSeq(@, i + 1, Len(@))]
       IN Become(spawnPythonBackend(s, e), "restartTimer", 0, "")

\* ipcMain.on('restart-backend')
ManualRestart ==
  /\ Idle
  /\ \E e \in SpawnEnvs(Cur) :
       LET s == restartBackend(Cur)
       IN IF s.pythonProcess # null
          THEN Become(killPythonBackend(s, "spawn"), "restart", 0, "")
          ELSE Become(spawnPythonBackend(s, e), "restart", 0, "")

\* the 5000ms timer of an unresolved killPythonBackend()
KillTimerFire ==
  /\ Idle
  /\ \E i \in 1..Len(kills) :
       Become(killTimeout(Cur, i), "killTimer", kills[i].proc, "")

\* app.on('before-quit'); the second one is not prevented and the app ends
BeforeQuit ==
  /\ Idle
  /\ IF ~isQuitting
     THEN Become(killPythonBackend([Cur EXCEPT !.isQuitting = TRUE],
                                   "quit"), "beforeQuit", 0, "")
     ELSE Become(Quit, "beforeQuit", 0, "")

\* the first microtask: () => spawnPythonBackend() of restart-backend, or
\* app.quit() after the await of before-quit
RunJob ==
  /\ phase = "up"
  /\ Failed = {}
  /\ jobs # <<>>
  /\ LET s == [Cur EXCEPT !.jobs = Tail(@)]
     IN IF Head(jobs) = "spawn"
        THEN \E e \in SpawnEnvs(s) :
               Become(spawnPythonBackend(s, e), "job", 0, "")
        ELSE Become(Quit, "job", 0, "")

\* the bounds of the model
Within ==
  /\ Len(workers') <= MaxSpawns
  /\ manualCount' <= MaxManual
  /\ Len(kills') <= MaxKills

Next ==
  \/ Startup /\ Within
  \/ StdoutData /\ Within
  \/ ErrorEvent /\ Within
  \/ ExitEvent /\ Within
  \/ StartupTimerFire /\ Within
  \/ RestartTimerFire /\ Within
  \/ ManualRestart /\ Within
  \/ KillTimerFire /\ Within
  \/ BeforeQuit /\ Within
  \/ RunJob /\ Within

Spec == Init /\ [][Next]_vars

(***************************************************************************)
(* The crash loop: an installation on which every spawn succeeds, a worker  *)
(* that never prints a readiness line and always ends with a nonzero exit   *)
(* code (or by a signal), no restart command and no shutdown.  The event    *)
(* loop runs every timer that is due, and the worker of this scenario ends  *)
(* on every run.                                                            *)
(***************************************************************************)
Healthy == [provisions |-> {"none"}, scriptExists |-> {TRUE},
            spawnOk |-> {TRUE}, files |-> {DevFiles}]

InitCrashLoop == InitIn(Healthy)

StdoutLog == StdoutFrom(LogChunks)

ExitNonzero == ExitWith(ExitCodes \ {"0"})

NextCrashLoop ==
  \/ Startup
  \/ StdoutLog
  \/ ExitNonzero
  \/ StartupTimerFire
  \/ RestartTimerFire

SpecCrashLoop ==
  /\ InitCrashLoop
  /\ [][NextCrashLoop]_vars
  /\ WF_vars(Startup)
  /\ WF_vars(ExitNonzero)
  /\ WF_vars(RestartTimerFire)

(***************************************************************************)
(* Teardown: manual restarts and shutdown on an installation on which every *)
(* spawn succeeds.  The event loop runs every microtask and every timer     *)
(* that is due; nothing is assumed of the worker, which may never exit     *)
(* (what it prints is left out: no part of teardown reads it).              *)
(* The sizes are kept by counting a spawn when it is caused (a restart      *)
(* timer set, a respawn waiting for killPythonBackend), so that no callback *)
(* that is due is ever held back.                                           *)
(***************************************************************************)
\* the continuations `() => spawnPythonBackend()` queued or waiting
Respawns(js, ks) ==
  Cardinality({i \in 1..Len(js) : js[i] = "spawn"})
    + Cardinality({i \in 1..Len(ks) : ks[i].then = "spawn"})

Budget ==
  /\ Len(workers') + Len(restartTimers') + Respawns(jobs', kills')
       <= MaxSpawns
  /\ manualCount' <= MaxManual
  /\ Len(kills') <= MaxKills

NextTeardown ==
  \/ Startup /\ Budget
  \/ ExitEvent /\ Budget
  \/ StartupTimerFire /\ Budget
  \/ RestartTimerFire /\ Budget
  \/ ManualRestart /\ Budget
  \/ KillTimerFire /\ Budget
  \/ BeforeQuit /\ Budget
  \/ RunJob /\ Budget

SpecTeardown ==
  /\ InitCrashLoop
  /\ [][NextTeardown]_vars
  /\ WF_vars(KillTimerFire /\ Budget)
  /\ WF_vars(RunJob /\ Budget)

(***************************************************************************)
(* The handshake: on an installation on which every spawn succeeds, the    *)
(* one worker writes the bytes of world.stream to its stdout, and the pipe  *)
(* hands them to the data callback in chunks cut at any byte.               *)
(***************************************************************************)
Streams ==
  { \* the readiness line of port 54321 and token abc123
    READY \o <<"5", "4", "3", "2", "1", ":", "a", "b", "c", "1", "2", "3",
               "\n">>,
    \* a log line, then two readiness lines, of ports 7 and 8
    <<"x", "\n">> \o READY \o <<"7", "\n">>
                  \o READY \o <<"8", ":", "k", "\n">>,
    \* a readiness line whose token is the character U+00E9
    READY \o <<"7", ":", "C3", "A9", "\n">>,
    \* lines outside the grammar, the last one unfinished
    READY \o <<"7", "x", "\n">> \o READY \o <<"\n">> \o READY \o <<"9">> }

Handshakes == [provisions : {{"none"}}, scriptExists : {{TRUE}},
               spawnOk : {{TRUE}}, files : {{DevFiles}}, stream : Streams]

InitHandshake == \E wld \in Handshakes : InitIn(wld)

\* the data callback gets the next n bytes of the worker's output
StdoutSplit ==
  /\ Idle
  /\ \E w \in 1..Len(workers) :
       /\ workers[w].st = "running"
       /\ \E n \in 1..(Len(world.stream) - workers[w].written) :
            LET from  == workers[w].written
                chunk == SubSeq(world.stream, from + 1, from + n)
            IN Become([onStdoutData(Cur, w, chunk) EXCEPT
                         !.workers[w].written = from + n], "stdout", w, "")

NextHandshake ==
  \/ Startup
  \/ StdoutSplit
  \/ StartupTimerFire

SpecHandshake == InitHandshake /\ [][NextHandshake]_vars

(***************************************************************************)
(* The supervisor while the main window can be closed: the backend keeps   *)
(* running without a window (window-all-closed does nothing), and no        *)
(* window is created after startup.                                         *)
(***************************************************************************)
\* mainWindow.on('closed')
WindowClosed ==
  /\ Idle
  /\ mainWindow
  /\ Become([Cur EXCEPT !.mainWindow = FALSE], "windowClosed", 0, "")

NextWindow ==
  \/ Startup /\ Within
  \/ StdoutData /\ Within
  \/ ErrorEvent /\ Within
  \/ ExitEvent /\ Within
  \/ StartupTimerFire /\ Within
  \/ RestartTimerFire /\ Within
  \/ WindowClosed /\ Within

SpecWindow == Init /\ [][NextWindow]_vars

(***************************************************************************)
(* The packaged app (app.isPackaged is true) without a bundled runtime:    *)
(* ensurePackagedPythonEnv finds no base interpreter, fails to create the   *)
(* user-scoped runtime, fails to install into it, or succeeds; at a later   *)
(* call the runtime it made can be there (no provisioning is done then).    *)
(* Without an interpreter findPythonPath() names the bundled one, which     *)
(* does not launch; every other one may or may not launch.                  *)
(***************************************************************************)
NoPython == [DevFiles EXCEPT !.python3 = FALSE]
UserRuntime == [DevFiles EXCEPT !.user = TRUE]

Packaged ==
  { [provisions |-> {"nopython"}, scriptExists |-> {TRUE},
     spawnOk |-> {FALSE}, files |-> {NoPython}],
    [provisions |-> {"venvfail"}, scriptExists |-> {TRUE},
     spawnOk |-> BOOLEAN, files |-> {DevFiles}],
    [provisions |-> {"pipfail", "none"}, scriptExists |-> {TRUE},
     spawnOk |-> BOOLEAN, files |-> {UserRuntime}],
    [provisions |-> {"ok", "none"}, scriptExists |-> {TRUE},
     spawnOk |-> BOOLEAN, files |-> {UserRuntime}] }

InitPackaged == \E wld \in Packaged : InitIn(wld)

NextPackaged ==
  \/ Startup /\ Within
  \/ ErrorEvent /\ Within
  \/ ExitEvent /\ Within
  \/ StartupTimerFire /\ Within
  \/ RestartTimerFire /\ Within
  \/ ManualRestart /\ Within
  \/ RunJob /\ Within

SpecPackaged == InitPackaged /\ [][NextPackaged]_vars

(***************************************************************************)
(* The choice of the interpreter: installations with every combination of  *)
(* override variable, runtimes and commands, on which the worker is         *)
(* spawned and, ending with a nonzero code, spawned again.                  *)
(***************************************************************************)
Installations ==
  [provisions : {{"none"}}, scriptExists : {{TRUE}}, spawnOk : {{TRUE}},
   files : {{f} : f \in Files}]

InitPython == \E wld \in Installations : InitIn(wld)

NextPython ==
  \/ Startup
  \/ ExitNonzero
  \/ RestartTimerFire

SpecPython == InitPython /\ [][NextPython]_vars

(***************************************************************************)
(* The WebSocketClient under any use of its interface: connect() and       *)
(* disconnect() at any time, and the events of its sockets.  (The main      *)
(* process is left in its initial state.)                                   *)
(***************************************************************************)
InitSupervisor ==
  LET f == Fresh(Healthy)
  IN /\ pythonProcess = f.pythonProcess
     /\ backendPort = f.backendPort
     /\ restartCount = f.restartCount
     /\ isQuitting = f.isQuitting
     /\ isSpawning = f.isSpawning
     /\ startupTimer = f.startupTimer
     /\ latestBackendStatus = f.latestBackendStatus
     /\ mainWindow = f.mainWindow
     /\ workers = f.workers
     /\ restartTimers = f.restartTimers
     /\ kills = f.kills
     /\ jobs = f.jobs
     /\ phase = f.phase
     /\ world = f.world
     /\ manualCount = f.manualCount
     /\ restartLog = f.restartLog
     /\ timeoutSeen = f.timeoutSeen
     /\ errorSeen = f.errorSeen
     /\ provisionSeen = f.provisionSeen
     /\ last = [op |-> "init", w |-> 0, code |-> "", rc |-> 0,
                guard |-> FALSE, timers |-> 0, emitted |-> <<>>,
                spawned |-> 0, pythonPath |-> "", chunk |-> <<>>,
                prov |-> FALSE,
                produced |-> <<>>, delivered |-> <<>>]

InitClient ==
  /\ InitSupervisor
  /\ \E url \in Urls, authToken \in Tokens : InitClientAs(url, authToken)

Connect == BecomeClient(connect(ClientCur), "connect", 0)

Disconnect == BecomeClient(disconnect(ClientCur), "disconnect", 0)

\* the open event of socket i
SocketOpen ==
  \E i \in 1..Len(sockets) :
    /\ sockets[i].readyState = "CONNECTING"
    /\ BecomeClient(onopen([ClientCur EXCEPT
                              !.sockets[i].readyState = "OPEN",
                              !.sockets[i].opened = TRUE]), "open", i)

\* the close event of socket i: the connection failed, was lost, or was
\* closed
SocketClose ==
  \E i \in 1..Len(sockets) :
    /\ sockets[i].readyState # "CLOSED"
    /\ BecomeClient(onclose([ClientCur EXCEPT
                               !.sockets[i].readyState = "CLOSED"]),
                    "close", i)

ReconnectTimerFire ==
  /\ reconnectPending # null
  /\ BecomeClient(reconnectTimeout(ClientCur), "reconnectTimer", 0)

\* the bounds of the client
WithinClient ==
  /\ Len(sockets') <= MaxSockets
  /\ clientLast'.connects <= MaxConnects
  /\ Len(reconnectLog') <= MaxReconnects

NextClient ==
  \/ Connect /\ WithinClient
  \/ Disconnect /\ WithinClient
  \/ SocketOpen /\ WithinClient
  \/ SocketClose /\ WithinClient
  \/ ReconnectTimerFire /\ WithinClient

SpecClient == InitClient /\ [][NextClient]_vars

(***************************************************************************)
(* The WebSocketClient as the renderer uses it (connectWebSocket,          *)
(* app.js:748-808): a client is made, connect() is called once, and         *)
(* disconnect() is called when the client is replaced.                      *)
(***************************************************************************)
ConnectOnce == clientLast.connects = 0 /\ Connect

WithinSession ==
  /\ Len(sockets') <= MaxSessionSockets
  /\ Len(reconnectLog') <= MaxReconnects

NextSession ==
  \/ ConnectOnce /\ WithinSession
  \/ Disconnect /\ WithinSession
  \/ SocketOpen /\ WithinSession
  \/ SocketClose /\ WithinSession
  \/ ReconnectTimerFire /\ WithinSession

SpecSession == InitClient /\ [][NextSession]_vars

\* the same with timers that fire: a pending reconnect timer is due after
\* its delay
SpecReconnect ==
  /\ InitClient
  /\ [][NextSession]_vars
  /\ WF_vars(ReconnectTimerFire /\ WithinSession)

(***************************************************************************)
(* The WebSocketClient as the renderer uses it, with its handlers          *)
(* registered, commands sent, heartbeat ticks and messages received.       *)
(***************************************************************************)
\* the on() calls made before connect(), as <<type, callback>>: those of a
\* renderer with a faulty subscriber between two others, one of them
\* registered twice; those with a faulty subscriber first
Registrations ==
  { << <<"open", "refresh">>, <<"status", "show">>, <<"status", "faulty">>,
       <<"status", "show">>, <<"close", "show">> >>,
    << <<"open", "faulty">>, <<"open", "show">>, <<"status", "faulty">>,
       <<"status", "refresh">>, <<"status", "show">>,
       <<"close", "faulty">> >> }

RECURSIVE register(_, _, _)
register(c, regs, k) ==
  IF k > Len(regs) THEN c
  ELSE register(on(c, regs[k][1], regs[k][2]), regs, k + 1)

\* the commands of the user
Actions == {"start_recording"}

InitTraffic ==
  /\ InitSupervisor
  /\ \E authToken \in Tokens, regs \in Registrations :
       /\ client = register([client |->
                               WebSocketClient([port |-> 7], authToken)],
                            regs, 1).client
       /\ sockets = <<>>
       /\ reconnectPending = null
       /\ reconnectLog = <<>>
       /\ heartbeats = {}
       /\ clientLast = [op |-> "new", sock |-> 0, threw |-> FALSE,
                        invoked |-> <<>>, arg |-> "",
                        delay |-> RECONNECT_BASE_MS, connects |-> 0]

Send ==
  \E action \in Actions :
    BecomeClient([send(ClientCur, action) EXCEPT !.arg = action], "send", 0)

\* the interval timer h fires
HeartbeatTick ==
  \E h \in heartbeats : BecomeClient(heartbeat(ClientCur), "heartbeat", 0)

\* the message event of a socket (the handler does not tell which)
Message ==
  \E data \in Messages :
    /\ \E i \in 1..Len(sockets) :
         /\ sockets[i].opened
         /\ sockets[i].readyState \in {"OPEN", "CLOSING"}
    /\ BecomeClient([onmessage(ClientCur, data) EXCEPT !.arg = data],
                    "message", 0)

\* the send() calls that transmitted a frame on the sockets from the k-th
\* on (a handler that asks for the configuration makes three, counted once)
RECURSIVE Sends(_, _)
Sends(socks, k) ==
  IF k > Len(socks) THEN 0
  ELSE Cardinality({n \in 1..Len(socks[k].sent) :
                      socks[k].sent[n] \in {PingFrame,
                                            CommandFrame("start_recording"),
                                            CommandFrame("get_config")}})
       + Sends(socks, k + 1)

WithinTraffic ==
  /\ Len(sockets') <= MaxTrafficSockets
  /\ Sends(sockets', 1) <= MaxSends

NextTraffic ==
  \/ ConnectOnce /\ WithinTraffic
  \/ Disconnect /\ WithinTraffic
  \/ SocketOpen /\ WithinTraffic
  \/ SocketClose /\ WithinTraffic
  \/ ReconnectTimerFire /\ WithinTraffic
  \/ Send /\ WithinTraffic
  \/ HeartbeatTick /\ WithinTraffic
  \/ Message /\ WithinTraffic

SpecTraffic == InitTraffic /\ [][NextTraffic]_vars

(***************************************************************************)
(* Claims.                                                                 *)
(***************************************************************************)
\* the statuses sent in the step that led to the current state
Sent == {last.emitted[i].status : i \in 1..Len(last.emitted)}

\* C1: over any run of nonzero exits without Ready or manual restart at most
\* 3 automatic restarts are scheduled, and an exit met with restartCount
\* already 3 (outside shutdown) sends `crashed` / "Max restarts exceeded" and
\* sets no timer.
C1_RestartCap ==
  /\ Len(restartLog) <= 3
  /\ (last.op = "exit" /\ last.code # "0" /\ last.rc = 3 /\ ~isQuitting) =>
       /\ Sent = {"crashed"}
       /\ latestBackendStatus.status = "crashed"
       /\ latestBackendStatus.message = "Max restarts exceeded"
       /\ Len(restartTimers) = last.timers
       /\ Len(restartLog) = 3

C1_Witness ==
  /\ last.op = "exit" /\ last.code # "0" /\ last.rc = 3
  /\ Len(workers) = 4
  /\ latestBackendStatus.status = "crashed"

\* C2: a worker that fails on each of its first four runs: the `restarting`
\* events carry attempt 1, 2, 3 in that order, the respawn for attempt k is
\* set k*1000ms ahead and does spawn a child, and the fourth exit ends in
\* `crashed` with no further spawn.
CrashLoopLog == << <<1, 1000>>, <<2, 2000>>, <<3, 3000>> >>

CrashLoopEnd ==
  /\ restartLog = CrashLoopLog
  /\ Len(workers) = 4
  /\ \A w \in 1..4 : workers[w].st = "gone"
  /\ restartTimers = <<>>
  /\ pythonProcess = null
  /\ latestBackendStatus.status = "crashed"
  /\ latestBackendStatus.message = "Max restarts exceeded"

C2_CrashLoop ==
  /\ [](/\ Len(restartLog) <= 3
        /\ restartLog = SubSeq(CrashLoopLog, 1, Len(restartLog))
        /\ Len(workers) <= 4
        /\ (last.op = "exit" =>
              /\ Len(restartLog) = last.rc + 1 => Sent = {"restarting"}
              /\ latestBackendStatus.attempt = Len(restartLog)))
  /\ <>[]CrashLoopEnd

C2_Witness == CrashLoopEnd

\* C3: a step that recognizes a readiness line and sends `ready` leaves
\* restartCount at 0, whatever it was before.
C3_ReadyResets ==
  (last.op = "stdout" /\ "ready" \in Sent) => restartCount = 0

C3_Witness ==
  /\ last.op = "stdout" /\ "ready" \in Sent
  /\ last.rc = 2
  /\ restartCount = 0

C5_TimeoutTerminal ==
  /\ (last.op = "startupTimer" /\ last.emitted # <<>>) => Sent = {"crashed"}
  /\ (timeoutSeen /\ last.spawned # null) => last.op \in {"restart", "job"}

\* C6: handling restart-backend leaves no automatic-restart timer pending,
\* and the replacement child is spawned with restartCount at 0, also when a
\* live child had to be ended first.
C6_ManualRestart ==
  /\ last.op = "restart" => restartTimers = <<>>
  /\ (last.op \in {"restart", "job"} /\ last.spawned # null) =>
       restartCount = 0

\* C7: at most one spawned child that has not ended exists.
C7_OneWorker == Cardinality(Running(Cur)) <= 1

\* a child being ended by an unresolved killPythonBackend()
Abandoned(w) == \E i \in 1..Len(kills) : kills[i].proc = w

\* spawn attempts in flight: spawned, not given up by a restart command, and
\* not yet ready, errored, exited or timed out
InFlight ==
  {w \in 1..Len(workers) :
     /\ workers[w].st \in {"running", "failed"}
     /\ ~workers[w].ready
     /\ ~workers[w].timedOut
     /\ ~Abandoned(w)}

\* C8: spawnPythonBackend() called while isSpawning is true spawns nothing
\* and sends nothing, and at most one spawn attempt is in flight.
C8_OneAttempt ==
  /\ (last.op \in {"restartTimer", "job"} /\ last.guard) =>
       last.spawned = null /\ last.emitted = <<>>
  /\ Cardinality(InFlight) <= 1

\* C9: isSpawning is false after every terminal outcome of a spawn attempt:
\* readiness line recognized, spawn error, exit, startup timeout.
C9_GuardCleared ==
  (\/ last.op = "stdout" /\ "ready" \in Sent
   \/ last.op \in {"error", "exit", "startupTimer"}) => ~isSpawning

\* C10: the startup timer of an attempt sends `crashed` only while that
\* attempt's outcome is unknown, and an attempt in flight has its startup
\* timer armed.
C10_StartupTimer ==
  /\ (last.op = "startupTimer" /\ "crashed" \in Sent) =>
       workers[last.w].st # "gone" /\ ~workers[last.w].ready
  /\ \A w \in InFlight : startupTimer = w

(***************************************************************************)
(* Claims about the readiness handshake.                                   *)
(***************************************************************************)
\* the complete lines of a byte stream from byte `start` on: the position of
\* the newline that ends the line, and the text of the line
RECURSIVE LinesFrom(_, _)
LinesFrom(stream, start) ==
  IF \A i \in start..Len(stream) : stream[i] # "\n" THEN <<>>
  ELSE LET i == CHOOSE k \in start..Len(stream) :
                  stream[k] = "\n" /\ \A j \in start..(k - 1) : stream[j] # "\n"
       IN <<[end |-> i, text |-> toString(SubSeq(stream, start, i - 1))]>>
            \o LinesFrom(stream, i + 1)

\* the lines of the grammar READY:<port>[:<token>] whose newline is among the
\* bytes a+1..b of the stream
IsDue(l, a, b) == l.end > a /\ l.end <= b /\ match(l.text).matched

ReadyLines(stream, a, b) ==
  SelectSeq(LinesFrom(stream, 1), LAMBDA l : IsDue(l, a, b))

\* the `ready` statuses sent in the step that led to the current state
IsReady(e) == e.status = "ready"

Announced == SelectSeq(last.emitted, IsReady)

\* C11: however the stream is cut into chunks, the data callback that gets
\* the newline of a readiness line, and no other, sends one `ready` for it,
\* with the port and the token of the line.
C11_ChunkIndependent ==
  last.op = "stdout" =>
    LET b   == workers[last.w].written
        due == ReadyLines(world.stream, b - Len(last.chunk), b)
    IN /\ Len(Announced) = Len(due)
       /\ \A i \in 1..Len(due) :
            /\ Announced[i].port = match(due[i].text).port
            /\ Announced[i].authToken = match(due[i].text).authToken

\* C12: of one worker only the first readiness line takes effect: a data
\* callback sends at most one `ready`, and once the worker is ready, and
\* until it exits, no `ready` is sent for it and the recorded port and token
\* stay as they are.
C12_FirstReadyOnly ==
  /\ [](Len(Announced) <= 1)
  /\ [][\A w \in 1..Len(workers) :
          (workers[w].ready /\ workers'[w].st # "gone") =>
            /\ backendPort' = backendPort
            /\ latestBackendStatus'.port = latestBackendStatus.port
            /\ latestBackendStatus'.authToken = latestBackendStatus.authToken
            /\ ~(last'.op = "stdout" /\ last'.w = w /\ Announced' # <<>>)]_vars

(***************************************************************************)
(* Claims about spawn errors and exits.                                    *)
(***************************************************************************)
\* C13: the error event of a spawn sends `error` only, leaves no handle, no
\* guard and no startup timer, does not touch restartCount and sets no restart
\* timer; after it no child is spawned but on a restart command.
C13_SpawnError ==
  /\ last.op = "error" =>
       /\ Sent = {"error"}
       /\ pythonProcess = null
       /\ ~isSpawning
       /\ startupTimer = null
       /\ restartCount = last.rc
       /\ Len(restartTimers) = last.timers
  /\ (errorSeen /\ last.spawned # null) => last.op \in {"restart", "job"}

\* C14: an exit with code 0 outside shutdown sets no restart timer, sends
\* neither `restarting` nor `crashed` and leaves restartCount as it was.
C14_CleanExit ==
  (last.op = "exit" /\ last.code = "0" /\ ~isQuitting) =>
    /\ Len(restartTimers) = last.timers
    /\ "restarting" \notin Sent
    /\ "crashed" \notin Sent
    /\ restartCount = last.rc

C14_Witness ==
  /\ last.op = "exit" /\ last.code = "0" /\ ~isQuitting
  /\ last.rc = 1
  /\ restartCount = 1

\* C15: once before-quit has set isQuitting, an exit with any code sets no
\* restart timer, sends no status and leaves restartCount as it was.
C15_ExitWhileQuitting ==
  (last.op = "exit" /\ isQuitting) =>
    /\ Len(restartTimers) = last.timers
    /\ last.emitted = <<>>
    /\ restartCount = last.rc

C15_Witness ==
  /\ last.op = "exit" /\ isQuitting
  /\ last.code = "1"
  /\ last.rc = 0

(***************************************************************************)
(* Claims about killPythonBackend.                                         *)
(***************************************************************************)
\* C16: the promise of killPythonBackend() is resolved only once the exit of
\* the process was observed, also when the 5s timer resolves it.
C16_KillConfirmed ==
  last.op = "killTimer" => workers[last.w].st = "gone"

\* C17: every killPythonBackend() promise is eventually resolved, and a
\* shutdown that has begun ends: the app quits.
C17_KillResolves ==
  /\ (kills # <<>>) ~> (kills = <<>>)
  /\ isQuitting ~> (phase = "quit")

C17_Witness ==
  /\ last.op = "killTimer"
  /\ isQuitting
  /\ jobs = <<"quit">>
  /\ workers[last.w].st = "killed"

(***************************************************************************)
(* Claims about the reconnect delay of the WebSocketClient.                *)
(***************************************************************************)
\* the delay of the k-th reconnect timer set since the last open event
Backoff(k) ==
  CASE k = 1 -> 500 [] k = 2 -> 1000 [] k = 3 -> 2000 [] k = 4 -> 4000
    [] k = 5 -> 8000 [] OTHER -> 10000

\* C18: the reconnect timers set since a socket opened, with no socket
\* opening in between, have the delays 500, 1000, 2000, 4000, 8000, 10000,
\* 10000, ... in that order.
C18_Backoff ==
  \A k \in 1..Len(reconnectLog) : reconnectLog[k] = Backoff(k)

C18_Witness ==
  /\ sockets # <<>>
  /\ sockets[1].sent = <<AuthFrame(<<"k">>)>>
  /\ \A i \in 1..Len(sockets) : sockets[i].readyState = "CLOSED"
  /\ clientLast.op = "close"
  /\ reconnectLog = <<500, 1000, 2000, 4000, 8000, 10000, 10000>>

\* C19: an open event leaves _reconnectDelay at 500, and the first reconnect
\* timer set after it has the delay 500, whatever the delay was before.
C19_OpenResets ==
  /\ clientLast.op = "open" => client._reconnectDelay = 500
  /\ reconnectLog # <<>> => reconnectLog[1] = 500

C19_Witness ==
  /\ clientLast.op = "open"
  /\ clientLast.delay = 10000
  /\ client._reconnectDelay = 500

\* C20: _reconnectDelay stays within 500..10000; only an open event lowers
\* it, to 500, and every other change of it doubles it up to 10000.
C20_DelayRange ==
  LET d == client._reconnectDelay
  IN /\ 500 <= d /\ d <= 10000
     /\ d < clientLast.delay => (clientLast.op = "open" /\ d = 500)
     /\ (d # clientLast.delay /\ clientLast.op # "open") =>
          d = Min(2 * clientLast.delay, 10000)

C20_Witness ==
  /\ clientLast.op = "reconnectTimer"
  /\ clientLast.delay = 8000
  /\ client._reconnectDelay = 10000

\* the frames of the user's command on the sockets from the k-th on
RECURSIVE Commanded(_, _)
Commanded(socks, k) ==
  IF k > Len(socks) THEN 0
  ELSE Cardinality({n \in 1..Len(socks[k].sent) :
                      socks[k].sent[n] = CommandFrame("start_recording")})
       + Commanded(socks, k + 1)

\* C21: send() without a socket or on a socket that is not OPEN throws
\* nothing, sends nothing and changes nothing of the client; the command is
\* not delivered later: a frame of it appears on a socket only in a send()
\* step made while the client is connected.
C21_SendNotOpen ==
  [][/\ (clientLast'.op = "send" /\ ~isConnected(ClientCur)) =>
          /\ ~clientLast'.threw
          /\ UNCHANGED <<client, sockets, reconnectPending, reconnectLog,
                         heartbeats>>
     /\ Commanded(sockets', 1) # Commanded(sockets, 1) =>
          /\ clientLast'.op = "send"
          /\ isConnected(ClientCur)]_vars

\* send() was called while the socket of a reconnection was connecting
C21_Witness ==
  /\ clientLast.op = "send"
  /\ ~clientLast.threw
  /\ client._ws = 2
  /\ sockets[2].readyState = "CONNECTING"
  /\ Commanded(sockets, 1) = 0

\* C22: at most one heartbeat interval is armed at any instant, and none
\* after a socket's close event.
C22_OneHeartbeat ==
  /\ Cardinality(heartbeats) <= 1
  /\ clientLast.op = "close" => heartbeats = {}

\* the open event of a second socket while the first is open
C22_Witness ==
  /\ clientLast.op = "open"
  /\ ~clientLast.threw
  /\ Cardinality({i \in 1..Len(sockets) :
                    sockets[i].readyState = "OPEN"}) = 2
  /\ Cardinality(heartbeats) = 1

\* C23: from a disconnect() until the next connect() (that is, while
\* _intentionalClose is set) no reconnect timer is pending, none is set and
\* no socket is created, whatever events the sockets deliver.
C23_DisconnectStays ==
  [][/\ client'._intentionalClose => reconnectPending' = null
     /\ (client._intentionalClose /\ clientLast'.op # "connect") =>
          /\ client'._intentionalClose
          /\ Len(sockets') = Len(sockets)
          /\ Len(reconnectLog') <= Len(reconnectLog)]_vars

\* the close event of a socket that was open (it carries the auth frame)
\* when disconnect() closed it
C23_Witness ==
  /\ clientLast.op = "close"
  /\ client._intentionalClose
  /\ sockets[clientLast.sock].sent # <<>>
  /\ \A i \in 1..Len(sockets) : sockets[i].readyState = "CLOSED"
  /\ reconnectPending = null

\* C24: at most one socket of the client is connecting or open at any
\* instant.
C24_OneSocket ==
  Cardinality({i \in 1..Len(sockets) :
                 sockets[i].readyState \in {"CONNECTING", "OPEN"}}) <= 1

\* C25: with an auth token configured, a socket that is open has been sent
\* the auth frame, and the first frame sent on any socket is the auth frame
\* (ahead of the pings and of the commands of `open` handlers); without a
\* token no auth frame is sent.
C25_AuthFirst ==
  \A i \in 1..Len(sockets) :
    LET sent == sockets[i].sent
    IN IF client._authToken # <<>>
       THEN /\ sockets[i].readyState = "OPEN" => sent # <<>>
            /\ sent # <<>> => sent[1] = AuthFrame(client._authToken)
       ELSE \A n \in 1..Len(sent) : sent[n].type # "auth"

\* the socket of a reconnection after its open event, the commands of the
\* `open` handler and a heartbeat tick
C25_Witness ==
  /\ clientLast.op = "heartbeat"
  /\ Len(sockets) = 2
  /\ sockets[2].sent = <<AuthFrame(<<"k">>), CommandFrame("get_config"),
                         CommandFrame("get_history"),
                         CommandFrame("get_devices"), PingFrame>>

\* the readyState of every socket
ReadyStates(socks) == [i \in 1..Len(socks) |-> socks[i].readyState]

\* C26: a message whose type has handlers invokes every one of them once, in
\* the order of registration, whichever of them throw; the message handler
\* ends without an exception, and the client's fields, its timers and the
\* readyState of its sockets are as before.
C26_HandlersIsolated ==
  [][(clientLast'.op = "message"
        /\ JSONparse(clientLast'.arg).type \in Types) =>
       /\ clientLast'.invoked =
            client._listeners[JSONparse(clientLast'.arg).type]
       /\ ~clientLast'.threw
       /\ UNCHANGED <<client, reconnectPending, reconnectLog, heartbeats>>
       /\ ReadyStates(sockets') = ReadyStates(sockets)]_vars

\* the first handler threw; the second sent its commands
C26_Witness ==
  /\ clientLast.op = "message"
  /\ clientLast.invoked = <<"faulty", "refresh", "show">>
  /\ client._ws # null
  /\ Len(sockets[client._ws].sent) >= 3

\* C27: a message that is not JSON invokes no handler, throws nothing and
\* leaves the client, its sockets and its timers as they were; a message of
\* type T invokes the handlers registered for T and no other.
C27_Dispatch ==
  [][clientLast'.op = "message" =>
       LET msg == JSONparse(clientLast'.arg)
       IN /\ ~clientLast'.threw
          /\ msg.thrown =>
               /\ clientLast'.invoked = <<>>
               /\ UNCHANGED <<client, sockets, reconnectPending,
                              reconnectLog, heartbeats>>
          /\ (~msg.thrown /\ msg.type \in Types) =>
               clientLast'.invoked = client._listeners[msg.type]
          /\ (~msg.thrown /\ msg.type \notin Types) =>
               clientLast'.invoked = <<>>]_vars

\* noise arrived at a client that has handlers
C27_Witness ==
  /\ clientLast.op = "message"
  /\ clientLast.arg = "oops"
  /\ clientLast.invoked = <<>>
  /\ client._listeners["status"] # <<>>
  /\ heartbeats # {}

\* the connection attempts made and the reconnect timers set: while a timer
\* is pending the sum grows only when its callback runs _openSocket()
Attempts == Len(sockets) + Len(reconnectLog)

\* the model follows the client up to MaxSessionSockets sockets and
\* MaxReconnects timers in a row
Followed ==
  Len(sockets) < MaxSessionSockets /\ Len(reconnectLog) < MaxReconnects

\* C28: after a close event that disconnect() did not ask for, a reconnect
\* timer is pending with the current _reconnectDelay; a pending timer leads
\* to a connection attempt unless disconnect() is called, again and again.
C28_Reconnects ==
  /\ [](clientLast.op = "close" /\ ~client._intentionalClose =>
          /\ reconnectPending # null
          /\ reconnectPending = client._reconnectDelay)
  /\ \A n \in 0..(MaxSessionSockets + MaxReconnects) :
       (reconnectPending # null /\ Attempts = n /\ Followed)
         ~> (Attempts > n \/ client._intentionalClose)

\* the third attempt after two connections that failed
C28_Witness ==
  /\ clientLast.op = "reconnectTimer"
  /\ ~client._intentionalClose
  /\ Len(sockets) = 3
  /\ sockets[3].readyState = "CONNECTING"
  /\ reconnectLog = <<500, 1000>>

(***************************************************************************)
(* Claims about the status events.                                         *)
(***************************************************************************)
\* C29: every status event that reaches the window is the object its
\* sendBackendStatus call was given: the fields of that object with their
\* values, and no other field.
C29_Unchanged ==
  /\ Len(last.delivered) \in {0, Len(last.produced)}
  /\ \A i \in 1..Len(last.delivered) :
       \A f \in StatusFields :
         last.delivered[i][f] = Get(last.produced[i], f)

\* what a get-backend-status query returns in the current state
Query == getBackendStatus(Cur)

\* C30: the query returns the initial loading status until a status is
\* broadcast, and from then on the payload of the last broadcast, whether or
\* not a window was there to receive it.
C30_LastKnown ==
  /\ Query = [status |-> "loading", message |-> "Initializing",
              port |-> undefined, authToken |-> noToken,
              attempt |-> undefined]
  /\ [][phase' # "quit" =>
          Query' = IF last'.emitted # <<>>
                   THEN last'.emitted[Len(last'.emitted)]
                   ELSE Query]_vars

\* the worker got ready after the window was closed
C30_Witness ==
  /\ ~mainWindow
  /\ last.op = "stdout"
  /\ last.emitted # <<>>
  /\ last.delivered = <<>>
  /\ Query.status = "ready"

(***************************************************************************)
(* Claims about provisioning.                                              *)
(***************************************************************************)
\* the messages of the failures of ensurePackagedPythonEnv
ProvisionErrors ==
  {"Python is not installed", "Failed to create Python environment",
   "Failed to install Python dependencies"}

\* ensurePackagedPythonEnv reported a failure in the step
ProvisionFailed ==
  \E i \in 1..Len(last.produced) :
    /\ last.produced[i].status = "error"
    /\ last.produced[i].message \in ProvisionErrors

\* ensurePackagedPythonEnv provisioned, or tried to, in the step
Provisioned ==
  \/ ProvisionFailed
  \/ \E i \in 1..Len(last.produced) :
       last.produced[i].message = "Preparing Python environment"

\* C31: a provisioning failure leaves the status `error` and no child is
\* spawned for it; from then on no step but a manual restart provisions again
\* or spawns a child.
C31_ProvisionFailure ==
  /\ ProvisionFailed =>
       /\ latestBackendStatus.status = "error"
       /\ last.spawned = null
  /\ (last.prov /\ last.op \notin {"restart", "job"}) =>
       /\ ~Provisioned
       /\ last.spawned = null

\* the candidates that are available, in the order of preference: the value
\* of the override variable if it has one, the interpreter of the bundled
\* runtime, that of the user-scoped runtime, python3, python
Available(f) ==
  (IF f.override \notin {<<>>, <<"">>} THEN f.override ELSE <<>>)
    \o (IF f.bundled THEN <<packagedVenvPython>> ELSE <<>>)
    \o (IF f.user THEN <<userVenvPython>> ELSE <<>>)
    \o (IF f.python3 THEN <<"python3">> ELSE <<>>)
    \o (IF f.python THEN <<"python">> ELSE <<>>)

\* C32: the worker is spawned with the first available candidate, and with
\* the interpreter of the bundled runtime when there is none.
C32_FirstAvailable ==
  last.spawned # null =>
    \A f \in world.files :
      last.pythonPath = IF Available(f) # <<>> THEN Head(Available(f))
                        ELSE packagedVenvPython

\* a user-scoped runtime is preferred to the commands that are there too
C32_Witness ==
  /\ last.op = "restartTimer"
  /\ last.spawned # null
  /\ world.files = {[override |-> <<"">>, bundled |-> FALSE, user |-> TRUE,
                     python3 |-> TRUE, python |-> TRUE]}
  /\ last.pythonPath = userVenvPython

(***************************************************************************)
(* Claims about replaced workers.                                          *)
(***************************************************************************)
\* C33: at most one restart timer is pending, and when a child is spawned no
\* timer of an earlier attempt is left: no restart timer is pending, and the
\* startup timer is the one this spawn has set.
C33_TimersCanceled ==
  /\ Len(restartTimers) <= 1
  /\ last.spawned # null =>
       /\ restartTimers = <<>>
       /\ startupTimer = last.spawned

\* a status object without endpoint
NoEndpoint(st) == st.port = undefined /\ st.authToken = noToken

\* C34: while no worker that announced its endpoint is alive (every such
\* worker has exited), neither the last-known status nor a status event
\* carries a port or an authToken.
C34_EndpointCleared ==
  (\A w \in 1..Len(workers) : ~workers[w].ready) =>
    /\ NoEndpoint(latestBackendStatus)
    /\ \A i \in 1..Len(last.emitted) : NoEndpoint(last.emitted[i])

(***************************************************************************)
(* Claims about the renderer's handling of status events.                  *)
(***************************************************************************)
\* C35: the renderer shows the crash overlay for every `crashed` event it
\* gets and calls connectWebSocket for `ready` events only.
C35_CrashHandled ==
  \A i \in 1..Len(last.delivered) :
    LET data == last.delivered[i]
    IN /\ data.status = "crashed" =>
            /\ onBackendStatus(data).crashOverlay = "visible"
            /\ ~onBackendStatus(data).connectWebSocket
       /\ onBackendStatus(data).connectWebSocket => data.status = "ready"

(***************************************************************************)
(* Claims about shutdown and about the callbacks of replaced workers.      *)
(***************************************************************************)
\* C36: once isQuitting is true no step spawns a child, the callback of a
\* restart timer set before the shutdown included.
C36_NoSpawnWhileQuitting ==
  [][isQuitting => last'.spawned = null]_vars

\* C37: the exit or error callback of a child that is no longer
\* pythonProcess, while a newer child is, leaves the handle, the startup
\* timer, the spawn guard and the restart timers as they were.
C37_ReplacedWorkerIsInert ==
  [][(/\ last'.op \in {"exit", "error"}
      /\ pythonProcess # null
      /\ last'.w # pythonProcess)
     => /\ pythonProcess' = pythonProcess
        /\ startupTimer' = startupTimer
        /\ isSpawning' = isSpawning
        /\ restartTimers' = restartTimers]_vars

\* C38: while the last-known status is `ready` the handle is a live child
\* that announced backendPort, and a worker exit outside shutdown leaves a
\* last-known status other than `ready`.
C38_ReadyMeansLive ==
  /\ latestBackendStatus.status = "ready" =>
       /\ pythonProcess # null
       /\ workers[pythonProcess].st = "running"
       /\ workers[pythonProcess].ready
       /\ backendPort = latestBackendStatus.port
  /\ (last.op = "exit" /\ ~isQuitting) =>
       latestBackendStatus.status # "ready"

(***************************************************************************)
(* Claims about the client's lifecycle events and its heartbeat.           *)
(***************************************************************************)
\* C39: a message, whatever its type, invokes no handler registered for
\* `open` or `close`: a message of one of these types invokes nothing.
C39_LifecycleOnly ==
  [][(clientLast'.op = "message"
        /\ JSONparse(clientLast'.arg).type \in {"open", "close"}) =>
       clientLast'.invoked = <<>>]_vars

\* C40: while the client's current socket is open a heartbeat interval is
\* armed.
C40_HeartbeatWhileOpen == isConnected(ClientCur) => heartbeats # {}
====
